---- MODULE Spec2Model ----
(***************************************************************************)
(* A model of gwf's scheduler core (src/src/gwf/core.py): the dependency   *)
(* graph derived from the targets' inputs and outputs, the staleness       *)
(* decision should_run, the persisted-state update update_state, the       *)
(* status resolution status, and the recursive schedule, which is run as   *)
(* a stack machine so that every backend.submit is a step of its own.      *)
(***************************************************************************)
EXTENDS Integers, Sequences, FiniteSets, TLC

\* ------------------------------------------------------------------ bounds
\* The largest modification timestamp a file of the file system may carry.
MaxTime == 2
\* The largest timestamp in the file systems a scheduling pass starts from.
MaxPassTime == 1
\* The number of top-level schedule calls made on one scheduler instance.
MaxCalls == 2
\* The number of status and update_state calls made on their own.
MaxQueries == 1

\* --------------------------------------------------------------- constants
\* _fileinfo returns None for a path that does not exist.
Missing == 0
\* A path the lazy file cache has not probed yet.
Unprobed == -1

\* The persisted execution states of a TargetMeta.
UNKNOWN == "UNKNOWN"
SUBMITTED == "SUBMITTED"
RUNNING == "RUNNING"
COMPLETED == "COMPLETED"
FAILED == "FAILED"
CANCELLED == "CANCELLED"
KILLED == "KILLED"
TargetStates == {UNKNOWN, SUBMITTED, RUNNING, COMPLETED, FAILED, CANCELLED, KILLED}

\* The statuses the scheduler reports (TargetStatus).
SHOULDRUN == "SHOULDRUN"
TargetStatus == {SHOULDRUN, SUBMITTED, RUNNING, COMPLETED, FAILED, KILLED, CANCELLED}
SHOULDRUN_STATES == {FAILED, KILLED, CANCELLED, SHOULDRUN}

\* What a call yields besides a value: WorkflowError (a required file is
\* missing) and the TypeError of comparing None with a timestamp.
WorkflowError == "WorkflowError"
TypeError == "TypeError"
Errors == {WorkflowError, TypeError}

\* ---------------------------------------------------------------- workflows
Paths == {"a", "b", "c", "d", "ext"}
\* Target names in lexicographic order (sorted(..., key=lambda t: t.name)).
NameOrder == <<"A", "B", "C", "D">>
Names == {NameOrder[i] : i \in DOMAIN NameOrder}

\* The value None of an option.
None == 0
\* A mapping without options.
NoOptions == [k \in {} |-> None]

\* A target without options of its own.
T(ins, outs) == [inputs |-> ins, outputs |-> outs, options |-> NoOptions]

\* S1/S2 of the specification: the linear chain A -> B -> C.
WfChain ==
    [A |-> T(<<>>, <<"a">>), B |-> T(<<"a">>, <<"b">>), C |-> T(<<"b">>, <<"c">>)]
\* C consumes a and b: A is reached from C directly and through B.
WfTriangle ==
    [A |-> T(<<>>, <<"a">>), B |-> T(<<"a">>, <<"b">>), C |-> T(<<"a", "b">>, <<"c">>)]
\* Two independent dependencies of a sink C, one of which needs an unresolved
\* file (S3 and S7 of the specification).
WfSiblings ==
    [A |-> T(<<>>, <<"a">>), B |-> T(<<"ext">>, <<"b">>), C |-> T(<<"a", "b">>, <<>>)]
\* B needs an unresolved file and the output of A.
WfExt ==
    [A |-> T(<<>>, <<"a">>), B |-> T(<<"a", "ext">>, <<"b">>)]
Workflows == {WfChain, WfTriangle, WfSiblings, WfExt}

Range(s) == {s[i] : i \in DOMAIN s}

\* F applied to the value of v, which is computed once.
Let(v, F(_)) == CHOOSE y \in {F(x) : x \in {v}} : TRUE

VARIABLES
    targets,        \* Graph.targets: name -> the target's inputs and outputs
    set_order,      \* the order in which a set of targets is iterated
    fs,             \* the file system: path -> timestamp, or Missing
    file_cache,     \* Scheduler._file_cache: path -> probed value, or Unprobed
    sr_cache,       \* the @cache of should_run: name -> "none", "true", "false"
    meta,           \* the state store: name -> persisted state
    meta0,          \* the state store as the scheduler found it
    dry_run,        \* Scheduler.dry_run
    pretend_known,  \* Scheduler._pretend_known
    stack,          \* the frames of the recursive schedule calls, top first
    submits,        \* the backend.submit calls made so far, in order
    calls,          \* the top-level schedule calls that have returned or raised
    option_defaults,\* Scheduler.backend.option_defaults: option -> default
    options0,       \* the options the targets were declared with
    scheduler       \* the number of Scheduler instances created so far

vars == <<targets, set_order, fs, file_cache, sr_cache, meta, meta0, dry_run,
          pretend_known, stack, submits, calls, option_defaults, options0,
          scheduler>>

\* ------------------------------------------------------------------- Target
flattened_inputs(t) == targets[t].inputs
flattened_outputs(t) == targets[t].outputs
is_source(t) == Len(flattened_inputs(t)) = 0
is_sink(t) == Len(flattened_outputs(t)) = 0

\* -------------------------------------------------------------------- Graph
\* provides[path]: the target that lists path among its outputs.
provides ==
    [p \in UNION {Range(flattened_outputs(t)) : t \in DOMAIN targets} |->
        CHOOSE t \in DOMAIN targets : p \in Range(flattened_outputs(t))]

dependencies(t) ==
    {provides[p] : p \in Range(flattened_inputs(t)) \cap DOMAIN provides}

unresolved ==
    UNION {Range(flattened_inputs(t)) : t \in DOMAIN targets} \ DOMAIN provides

\* The sequence a `for x in S` over a set of targets runs through.
SetIter(S) == SelectSeq(set_order, LAMBDA x : x \in S)
\* The sort is descending.
SortedByName_Descending(S) ==
    LET s == SelectSeq(NameOrder, LAMBDA x : x \in S)
    IN [i \in DOMAIN s |-> s[Len(s) + 1 - i]]

\* sorted(S, key=lambda t: t.name)
SortedByName(S) == SelectSeq(NameOrder, LAMBDA x : x \in S)

\* ---------------------------------------------------------------- FileCache
\* _fileinfo(path): os.stat's st_mtime, or None when the file is not there.
_fileinfo(p) == fs[p]

\* self._file_cache[path]: the first access probes, later ones reuse the value.
Probe(fc, p) == IF fc[p] = Unprobed THEN [fc EXCEPT ![p] = _fileinfo(p)] ELSE fc

RECURSIVE ProbeAll(_, _)
ProbeAll(fc, ps) ==
    IF ps = <<>> THEN fc ELSE ProbeAll(Probe(fc, Head(ps)), Tail(ps))

\* --------------------------------------------------------------- TargetMeta
\* get_target_meta: the record of a target, created UNKNOWN on first lookup.
get_target_meta(m, t) == m[t]
\* TargetMeta.reset(): the persisted state becomes UNKNOWN.
reset(m, t) == [m EXCEPT ![t] = UNKNOWN]
\* TargetMeta.submitted(): the persisted state becomes SUBMITTED.
submitted(m, t) == [m EXCEPT ![t] = SUBMITTED]

\* ------------------------------------------------------------- update_state
\* A dependency that is UNKNOWN does not reset its dependents.
IsBadDepState_NotUnknown(s) == s \in {FAILED, KILLED, CANCELLED}

\* dep_state.is_failed() or is_killed() or is_cancelled() or is_unknown()
IsBadDepState(s) == s \in {FAILED, KILLED, CANCELLED, UNKNOWN}

RECURSIVE update_state(_, _), update_state_deps(_, _, _)

\* The loop of update_state over the dependencies ds still to visit.
update_state_deps(t, ds, m) ==
    IF ds = <<>> THEN m
    ELSE Let(update_state(Head(ds), m), LAMBDA m1 :
             update_state_deps(t, Tail(ds),
                 IF IsBadDepState(get_target_meta(m1, Head(ds)))
                 THEN reset(m1, t) ELSE m1))

\* update_state(target): the state store after the call; the returned
\* TargetMeta is the store's record of target.
update_state(t, m) == update_state_deps(t, SetIter(dependencies(t)), m)

\* --------------------------------------------------------------- should_run
\* Equal timestamps count as stale.
Stale_OrEqual(yin, yout) == yin >= yout

\* youngest_in_ts > oldest_out_ts
Stale(yin, yout) == yin > yout

Max(S) == CHOOSE x \in S : \A y \in S : y <= x
Min(S) == CHOOSE x \in S : \A y \in S : x <= y

Res(r, sc, fc) == [res |-> r, sc |-> sc, fc |-> fc]

\* Rule 2 is left out: no input is checked.
check_inputs_Skipped(ps, fc) == [res |-> "ok", fc |-> fc]

\* The unresolved input is looked up on disk, past the file cache.
RECURSIVE check_inputs_Stat(_, _)
check_inputs_Stat(ps, fc) ==
    IF ps = <<>> THEN [res |-> "ok", fc |-> fc]
    ELSE IF Head(ps) \in unresolved /\ _fileinfo(Head(ps)) = Missing
         THEN [res |-> WorkflowError, fc |-> fc]
         ELSE check_inputs_Stat(Tail(ps), fc)

\* Rule 2: an unresolved input that is missing on disk raises WorkflowError.
RECURSIVE check_inputs(_, _)
check_inputs(ps, fc) ==
    IF ps = <<>> THEN [res |-> "ok", fc |-> fc]
    ELSE IF Head(ps) \in unresolved
         THEN Let(Probe(fc, Head(ps)), LAMBDA fc1 :
                  IF fc1[Head(ps)] = Missing
                  THEN [res |-> WorkflowError, fc |-> fc1]
                  ELSE check_inputs(Tail(ps), fc1))
         ELSE check_inputs(Tail(ps), fc)

\* Rule 4: the first output that is missing on disk makes the target run.
RECURSIVE check_outputs(_, _)
check_outputs(ps, fc) ==
    IF ps = <<>> THEN [res |-> "ok", fc |-> fc]
    ELSE Let(Probe(fc, Head(ps)), LAMBDA fc1 :
             IF fc1[Head(ps)] = Missing
             THEN [res |-> "true", fc |-> fc1]
             ELSE check_outputs(Tail(ps), fc1))

\* Rule 6: the youngest input against the oldest output. max() and > raise
\* TypeError when a timestamp is None.
compare_timestamps(t, fc) ==
    LET ins == {fc[p] : p \in Range(flattened_inputs(t))}
        outs == {fc[p] : p \in Range(flattened_outputs(t))}
    IN IF Missing \in ins \cup outs THEN TypeError
       ELSE IF Stale(Max(ins), Min(outs)) THEN "true" ELSE "false"

RECURSIVE should_run(_, _, _), should_run_deps(_, _, _), should_run_body(_, _, _)

\* The dependencies are not asked.
should_run_deps_Skipped(ds, sc, fc) == Res("false", sc, fc)

\* Rule 1: the loop over the dependencies ds still to ask.
should_run_deps(ds, sc, fc) ==
    IF ds = <<>> THEN Res("false", sc, fc)
    ELSE Let(should_run(Head(ds), sc, fc), LAMBDA r :
             IF r.res = "false" THEN should_run_deps(Tail(ds), r.sc, r.fc) ELSE r)

\* Rules 3 to 6, once no dependency should run and no required file is missing.
should_run_files(t, sc, fc) ==
    IF is_sink(t) THEN Res("true", sc, fc)
    ELSE Let(check_outputs(flattened_outputs(t), fc), LAMBDA o :
             IF o.res = "true" THEN Res("true", sc, o.fc)
             ELSE IF is_source(t) THEN Res("false", sc, o.fc)
             ELSE Let(ProbeAll(ProbeAll(o.fc, flattened_inputs(t)),
                               flattened_outputs(t)), LAMBDA fc2 :
                      Res(compare_timestamps(t, fc2), sc, fc2)))

should_run_body(t, sc, fc) ==
    Let(should_run_deps(SetIter(dependencies(t)), sc, fc), LAMBDA d :
        IF d.res # "false" THEN d
        ELSE Let(check_inputs(flattened_inputs(t), d.fc), LAMBDA i :
                 IF i.res # "ok" THEN Res(i.res, d.sc, i.fc)
                 ELSE should_run_files(t, d.sc, i.fc)))

\* @cache: a result is computed once per target; a raised error is not kept.
should_run(t, sc, fc) ==
    IF sc[t] # "none" THEN Res(sc[t], sc, fc)
    ELSE Let(should_run_body(t, sc, fc), LAMBDA r :
             IF r.res \in {"true", "false"}
             THEN Res(r.res, [r.sc EXCEPT ![t] = r.res], r.fc)
             ELSE r)

\* ------------------------------------------------------------------- status
\* A RUNNING target is reported SUBMITTED.
StatusOf_RunningAsSubmitted(state, sr) ==
    CASE state \in {UNKNOWN, COMPLETED} -> (IF sr = "true" THEN SHOULDRUN ELSE COMPLETED)
      [] state = RUNNING -> SUBMITTED
      [] OTHER -> state

\* The branch of KILLED is missing: status falls through and returns None.
StatusOf_NoKilled(state, sr) ==
    CASE state \in {UNKNOWN, COMPLETED} -> (IF sr = "true" THEN SHOULDRUN ELSE COMPLETED)
      [] state = KILLED -> "None"
      [] OTHER -> state

\* The if/elif chain of status over the persisted state and should_run.
StatusOf(state, sr) ==
    CASE state = UNKNOWN -> (IF sr = "true" THEN SHOULDRUN ELSE COMPLETED)
      [] state = SUBMITTED -> SUBMITTED
      [] state = RUNNING -> RUNNING
      [] state = COMPLETED -> (IF sr = "true" THEN SHOULDRUN ELSE COMPLETED)
      [] state = FAILED -> FAILED
      [] state = CANCELLED -> CANCELLED
      [] state = KILLED -> KILLED
      [] OTHER -> "None"

\* status(target): update_state, then should_run, then the mapping. st is
\* the status returned, or the error raised by should_run.
status(t, m, sc, fc) ==
    Let(update_state(t, m), LAMBDA m1 :
        Let(should_run(t, sc, fc), LAMBDA r :
            [st |-> IF r.res \in Errors THEN r.res
                    ELSE StatusOf(get_target_meta(m1, t), r.res),
             meta |-> m1, sc |-> r.sc, fc |-> r.fc]))

\* --------------------------------------------------- prepare_target_options
\* Lines 302-303: the backend's defaults, updated with the target's options.
new_options(opts) ==
    [k \in DOMAIN option_defaults \cup DOMAIN opts |->
        IF k \in DOMAIN opts THEN opts[k] ELSE option_defaults[k]]

\* Only an unsupported option is deleted: a None value stays.
deleted_UnsupportedOnly(new, k) == k \notin DOMAIN option_defaults

\* Lines 306-314: an option the backend does not know is deleted (with a
\* warning), and so is an option whose value is None.
deleted(new, k) == k \notin DOMAIN option_defaults \/ new[k] = None

\* Lines 302-315: the options target.options is set to.
prepare_target_options(opts) ==
    Let(new_options(opts), LAMBDA new :
        [k \in {q \in DOMAIN new : ~deleted(new, q)} |-> new[k]])

\* ----------------------------------------------------------------- schedule
\* The loop over the dependencies is skipped.
Frame_NoDeps(t, n, m) ==
    [t |-> t, phase |-> "deps", todo |-> <<>>, sub |-> {}, n0 |-> n, m0 |-> m]

\* A frame of schedule(target) that is past the dedup gate: where the call
\* stands ("deps": in the loop over the sorted dependencies; "submit": the
\* state is committed and backend.submit is the next statement), the
\* dependencies still to schedule, and submitted_deps. n0 and m0 record the
\* entry of the call: the number of submissions made before it, and the
\* persisted state of the target after the update_state of the gate.
Frame(t, n, m) ==
    [t |-> t, phase |-> "deps", todo |-> SortedByName(dependencies(t)), sub |-> {},
     n0 |-> n, m0 |-> m]

Top == stack[1]

\* RUNNING is among the statuses that make a target run.
must_run_AlsoRunning(sub, st) == sub # {} \/ st \in SHOULDRUN_STATES \cup {RUNNING}

\* Only SHOULDRUN makes a target run on its own account.
must_run_ShouldRunOnly(sub, st) == sub # {} \/ st = SHOULDRUN

\* submitted_deps or self.status(target) in Scheduler.SHOULDRUN_STATES
must_run(sub, st) == sub # {} \/ st \in SHOULDRUN_STATES

\* The loop over the dependencies stays at the dependency it has scheduled.
Returned_SameDependency(t, v, rest) ==
    IF rest = <<>> THEN <<>>
    ELSE <<[rest[1] EXCEPT !.sub = IF v THEN @ \cup {t} ELSE @]>> \o Tail(rest)

\* Every scheduled dependency is added to submitted_deps, whatever it returned.
Returned_AlwaysAdded(t, v, rest) ==
    IF rest = <<>> THEN <<>>
    ELSE <<[rest[1] EXCEPT !.todo = Tail(@), !.sub = @ \cup {t}]>> \o Tail(rest)

\* The stack after schedule(t), called from the top frame of rest, returns
\* v: the caller adds t to its submitted_deps when v is true and moves on to
\* its next dependency.
Returned(t, v, rest) ==
    IF rest = <<>> THEN <<>>
    ELSE <<[rest[1] EXCEPT !.todo = Tail(@),
                           !.sub = IF v THEN @ \cup {t} ELSE @]>> \o Tail(rest)

Bool(v) == IF v THEN "true" ELSE "false"

\* The caller's record of a top-level call schedule(t) that returned v:
\* n0, m0 as in the frame, p0 whether t was in the pretend set at entry, n1
\* the number of submissions made when it returned, p1 whether the call
\* added t to the pretend set.
Finished(t, v, rest, n, m, n1, p1) ==
    IF rest = <<>>
    THEN Append(calls, [op |-> "schedule", t |-> t, res |-> Bool(v), n0 |-> n,
                        m0 |-> m, p0 |-> t \in pretend_known, n1 |-> n1,
                        p1 |-> p1, at |-> t])
    ELSE calls

\* An error raised in schedule(t) unwinds every frame of the top-level call;
\* at is the target whose schedule raised.
Raised(t, e, rest) ==
    Append(calls, [op |-> "schedule",
                   t |-> IF rest = <<>> THEN t ELSE rest[Len(rest)].t, res |-> e,
                   n0 |-> IF rest = <<>> THEN Len(submits) ELSE rest[Len(rest)].n0,
                   m0 |-> IF rest = <<>> THEN meta[t] ELSE rest[Len(rest)].m0,
                   p0 |-> FALSE, n1 |-> Len(submits), p1 |-> FALSE,
                   at |-> t])

\* The gate without the pretend set.
already_submitted_StatusOnly(st, t) == st = SUBMITTED

\* Lines 329-332: the target is SUBMITTED or in the pretend set.
already_submitted(st, t) == st = SUBMITTED \/ t \in pretend_known

\* Lines 326-334, the entry of schedule(t) called from the top frame of rest:
\* the options of t are normalised, status runs update_state and should_run,
\* then the dedup gate.
Gate(t, rest) ==
    \E s \in {status(t, meta, sr_cache, file_cache)} :
       /\ targets' = [targets EXCEPT ![t].options = prepare_target_options(@)]
       /\ meta' = s.meta
       /\ sr_cache' = s.sc
       /\ file_cache' = s.fc
       /\ IF s.st \in Errors
          THEN stack' = <<>> /\ calls' = Raised(t, s.st, rest)
          ELSE IF already_submitted(s.st, t)
          THEN /\ stack' = Returned(t, TRUE, rest)
               /\ calls' = Finished(t, TRUE, rest, Len(submits), s.meta[t],
                                    Len(submits), FALSE)
          ELSE /\ stack' = <<Frame(t, Len(submits), s.meta[t])>> \o rest
               /\ calls' = calls
       /\ UNCHANGED <<scheduler, options0, option_defaults, set_order, fs, meta0, dry_run, pretend_known,
                       submits>>

\* A caller (schedule_many, or any other) calls schedule(t).
Call(t) ==
    /\ stack = <<>>
    /\ Len(calls) < MaxCalls
    /\ Gate(t, <<>>)

\* Lines 337-338: schedule the next dependency, in name order.
Descend ==
    /\ stack # <<>>
    /\ Top.phase = "deps"
    /\ Top.todo # <<>>
    /\ Gate(Head(Top.todo), stack)

\* state.commit() is missing: reset and submitted are never persisted.
commit_submitted_NotCommitted(m, t) == m

\* Lines 348-351: reset, then submitted, persisted by one commit.
commit_submitted(m, t) == submitted(reset(m, t), t)

\* Line 341: status is asked only when submitted_deps is empty.
decide_status ==
    IF Top.sub = {} THEN status(Top.t, meta, sr_cache, file_cache)
    ELSE [st |-> "not asked", meta |-> meta, sc |-> sr_cache, fc |-> file_cache]

\* Lines 341-357: after the loop. status is asked only when no dependency
\* was submitted; then dry-run, or reset and submitted under one commit.
Decide ==
    /\ stack # <<>>
    /\ Top.phase = "deps"
    /\ Top.todo = <<>>
    /\ \E s \in {decide_status} :
       LET t == Top.t
           rest == Tail(stack)
       IN /\ sr_cache' = s.sc
          /\ file_cache' = s.fc
          /\ IF s.st \in Errors
             THEN /\ stack' = <<>> /\ calls' = Raised(t, s.st, rest)
                  /\ meta' = s.meta /\ pretend_known' = pretend_known
             ELSE IF must_run(Top.sub, s.st)
             THEN IF dry_run
                  THEN /\ pretend_known' = pretend_known \cup {t}
                       /\ meta' = s.meta
                       /\ stack' = Returned(t, TRUE, rest)
                       /\ calls' = Finished(t, TRUE, rest, Top.n0, Top.m0,
                                            Len(submits), TRUE)
                  ELSE /\ meta' = commit_submitted(s.meta, t)
                       /\ stack' = <<[Top EXCEPT !.phase = "submit"]>> \o rest
                       /\ calls' = calls /\ pretend_known' = pretend_known
             ELSE /\ meta' = s.meta /\ pretend_known' = pretend_known
                  /\ stack' = Returned(t, FALSE, rest)
                  /\ calls' = Finished(t, FALSE, rest, Top.n0, Top.m0,
                                       Len(submits), FALSE)
    /\ UNCHANGED <<scheduler, options0, option_defaults, targets, set_order, fs, meta0, dry_run, submits>>

\* Lines 353-354: backend.submit(target, dependencies=submitted_deps).
Submit ==
    /\ stack # <<>>
    /\ Top.phase = "submit"
    /\ submits' = Append(submits, [t |-> Top.t, deps |-> Top.sub, n0 |-> Top.n0])
    /\ stack' = Returned(Top.t, TRUE, Tail(stack))
    /\ calls' = Finished(Top.t, TRUE, Tail(stack), Top.n0, Top.m0,
                         Len(submits) + 1, FALSE)
    /\ UNCHANGED <<scheduler, options0, option_defaults, targets, set_order, fs, file_cache, sr_cache, meta, meta0,
                   dry_run, pretend_known>>

\* ------------------------------------------------- the methods on their own
\* A caller asks should_run(t) of the scheduler; by is the scheduler asked.
ShouldRunCall(t) ==
    /\ Len(calls) < MaxCalls
    /\ \E r \in {should_run(t, sr_cache, file_cache)} :
          /\ sr_cache' = r.sc
          /\ file_cache' = r.fc
          /\ calls' = Append(calls, [op |-> "should_run", t |-> t, res |-> r.res,
                                     by |-> scheduler])
    /\ UNCHANGED <<scheduler, options0, option_defaults, targets, set_order, fs, meta, meta0, dry_run, pretend_known,
                   stack, submits>>

\* A caller asks update_state(t); before is t's persisted state at the call.
UpdateStateCall(t) ==
    /\ Len(calls) < MaxQueries
    /\ meta' = update_state(t, meta)
    /\ calls' = Append(calls, [op |-> "update_state", t |-> t, res |-> "state",
                               before |-> meta[t]])
    /\ UNCHANGED <<scheduler, options0, option_defaults, targets, set_order, fs, file_cache, sr_cache, meta0, dry_run,
                   pretend_known, stack, submits>>

\* A caller asks status(t).
StatusCall(t) ==
    /\ Len(calls) < MaxQueries
    /\ \E s \in {status(t, meta, sr_cache, file_cache)} :
          /\ meta' = s.meta
          /\ sr_cache' = s.sc
          /\ file_cache' = s.fc
          /\ calls' = Append(calls, [op |-> "status", t |-> t, res |-> s.st,
                                     before |-> meta[t]])
    /\ UNCHANGED <<scheduler, options0, option_defaults, targets, set_order, fs, meta0, dry_run, pretend_known, stack,
                   submits>>

\* ------------------------------------------------------------ specification
Reverse(s) == [i \in DOMAIN s |-> s[Len(s) + 1 - i]]

\* The iteration orders that differ on some dependency set of the workflow.
SetOrders(w) ==
    IF \E t \in DOMAIN w :
          Cardinality({u \in DOMAIN w :
              Range(w[u].outputs) \cap Range(w[t].inputs) # {}}) > 1
    THEN {NameOrder, Reverse(NameOrder)}
    ELSE {NameOrder}

\* The paths a workflow mentions.
PathsOf(w) == UNION {Range(w[t].inputs) \cup Range(w[t].outputs) : t \in DOMAIN w}

\* The file systems over timestamps 1..n: a path no target mentions is absent.
FileSystems(w, n) ==
    {f \in [Paths -> {Missing} \cup (1..n)] : \A p \in Paths \ PathsOf(w) : f[p] = Missing}

\* The states a scheduling pass finds in the store. CANCELLED and KILLED go
\* through the branches of FAILED in update_state and schedule, and are
\* drawn where status and update_state are checked on their own.
PassStates == {UNKNOWN, SUBMITTED, RUNNING, COMPLETED, FAILED}

\* Scheduler.__init__: empty caches, an empty pretend set.
InitScheduler ==
    /\ scheduler = 1
    /\ file_cache = [p \in Paths |-> Unprobed]
    /\ sr_cache = [t \in DOMAIN targets |-> "none"]
    /\ pretend_known = {}
    /\ stack = <<>>
    /\ submits = <<>>
    /\ calls = <<>>

\* A scheduling pass: schedule calls on one scheduler, over every workflow,
\* iteration order, file system and state store of the bounds.
Init ==
    /\ option_defaults = NoOptions
    /\ targets \in Workflows
    /\ options0 = [t \in DOMAIN targets |-> targets[t].options]
    /\ set_order \in SetOrders(targets)
    /\ fs \in FileSystems(targets, MaxPassTime)
    /\ meta \in [DOMAIN targets -> PassStates]
    /\ meta0 = meta
    /\ dry_run \in BOOLEAN
    /\ InitScheduler

Next ==
    \/ \E t \in DOMAIN targets : Call(t)
    \/ Descend
    \/ Decide
    \/ Submit

Spec == Init /\ [][Next]_vars

\* should_run on its own, over every file system up to MaxTime.
InitShouldRun ==
    /\ option_defaults = NoOptions
    /\ targets \in Workflows
    /\ options0 = [t \in DOMAIN targets |-> targets[t].options]
    /\ set_order \in SetOrders(targets)
    /\ fs \in FileSystems(targets, MaxTime)
    /\ meta = [t \in DOMAIN targets |-> UNKNOWN]
    /\ meta0 = meta
    /\ dry_run = FALSE
    /\ InitScheduler

NextShouldRun == \E t \in DOMAIN targets : ShouldRunCall(t)

SpecShouldRun == InitShouldRun /\ [][NextShouldRun]_vars

\* status and update_state on their own, over every state store.
InitStatus ==
    /\ option_defaults = NoOptions
    /\ targets \in Workflows
    /\ options0 = [t \in DOMAIN targets |-> targets[t].options]
    /\ set_order \in SetOrders(targets)
    /\ fs \in FileSystems(targets, MaxPassTime)
    /\ meta \in [DOMAIN targets -> TargetStates]
    /\ meta0 = meta
    /\ dry_run = FALSE
    /\ InitScheduler

NextStatus ==
    \/ \E t \in DOMAIN targets : StatusCall(t)
    \/ \E t \in DOMAIN targets : UpdateStateCall(t)

SpecStatus == InitStatus /\ [][NextStatus]_vars

\* ------------------------------------------------------------------- claims
\* The targets backend.submit has been called for.
Submitted == {submits[i].t : i \in DOMAIN submits}
\* The number of backend.submit calls made for t.
SubmitCount(t) == Cardinality({i \in DOMAIN submits : submits[i].t = t})
\* The targets whose SUBMITTED state schedule committed on this scheduler.
Committed ==
    Submitted \cup {stack[i].t : i \in {j \in DOMAIN stack : stack[j].phase = "submit"}}
\* The targets submitted while the call recorded as c ran.
SubmittedDuring(c) == {submits[i].t : i \in (c.n0 + 1)..c.n1}

\* C1: in the trace of submissions, every submission of a target t comes
\* after a submission of each direct dependency of t that is submitted at all.
C1_SubmissionOrder ==
    \A j \in DOMAIN submits :
        \A d \in dependencies(submits[j].t) :
            d \in Submitted => \E i \in 1..(j - 1) : submits[i].t = d

\* A whole chain was submitted: A, then B, then C.
C1_Witness ==
    /\ ~dry_run
    /\ Len(submits) = 3
    /\ submits[1].t \in dependencies(submits[2].t)
    /\ submits[2].t \in dependencies(submits[3].t)

\* C2: two schedule calls for the same target submit it at most once in
\* total, and the second returns what the first returned.
C2_Idempotence ==
    \A i, j \in DOMAIN calls :
        (i < j /\ calls[i].t = calls[j].t /\ calls[i].res \in {"true", "false"})
            => /\ SubmitCount(calls[i].t) <= 1
               /\ calls[j].res = calls[i].res

C4_ReturnsTrueIffSubmittedHere ==
    \A k \in DOMAIN calls :
        calls[k].res \in {"true", "false"}
            => (calls[k].res = "true"
                  <=> \/ calls[k].t \in {submits[i].t : i \in 1..calls[k].n1}
                      \/ calls[k].p1
                      \/ calls[k].p0)

\* C4 as amended: schedule(t) returns true exactly when t was submitted (or
\* added to the pretend set) during the call, or had been submitted (or
\* added to the pretend set) by an earlier call on this scheduler, or its
\* persisted state after the update_state of the entry was SUBMITTED,
\* whoever committed it; when it returns false t was not submitted during
\* the call.
C4_ReturnsTrueIffSubmitted ==
    \A k \in DOMAIN calls :
        calls[k].res \in {"true", "false"}
            => /\ calls[k].res = "true"
                    <=> \/ calls[k].t \in SubmittedDuring(calls[k])
                        \/ calls[k].p1
                        \/ calls[k].t \in {submits[i].t : i \in 1..calls[k].n0}
                        \/ calls[k].p0
                        \/ calls[k].m0 = SUBMITTED
               /\ calls[k].res = "false" => calls[k].t \notin SubmittedDuring(calls[k])

\* A call returned true for a target found SUBMITTED that this scheduler
\* never submitted, and another returned false.
C4_Witness ==
    /\ Len(calls) = 2
    /\ calls[1].res = "true" /\ calls[1].t \notin Submitted
    /\ calls[1].m0 = SUBMITTED
    /\ calls[2].res = "false"

\* C5: a state that schedule committed as SUBMITTED stays SUBMITTED through
\* every later step on the scheduler.
C5_SubmittedIsDurable ==
    [][\A t \in DOMAIN targets :
          (t \in Committed /\ meta[t] = SUBMITTED) => meta'[t] = SUBMITTED]_vars

\* C8: a target with an input that no target provides and that is missing on
\* disk is never submitted, and a schedule call for it raises WorkflowError.
RequiredFileMissing(t) ==
    \E p \in Range(flattened_inputs(t)) : p \in unresolved /\ fs[p] = Missing

C8_RequiredFileMissing ==
    /\ \A t \in Submitted : ~RequiredFileMissing(t)
    /\ \A k \in DOMAIN calls :
          RequiredFileMissing(calls[k].t) => calls[k].res = WorkflowError

\* The rules of should_run over the file system, without caches. Rule 1
\* holds when some dependency should run; an error of a dependency is passed
\* on when none should run.
RECURSIVE Rules(_)
RulesOfFiles(t) ==
    LET ins == Range(flattened_inputs(t))
        outs == Range(flattened_outputs(t))
    IN IF \E p \in ins : p \in unresolved /\ fs[p] = Missing THEN WorkflowError
       ELSE IF outs = {} THEN "true"
       ELSE IF \E p \in outs : fs[p] = Missing THEN "true"
       ELSE IF ins = {} THEN "false"
       ELSE IF Max({fs[p] : p \in ins}) > Min({fs[p] : p \in outs}) THEN "true"
       ELSE "false"

Rules(t) ==
    Let([d \in dependencies(t) |-> Rules(d)], LAMBDA r :
        IF \E d \in DOMAIN r : r[d] = "true" THEN "true"
        ELSE IF \E d \in DOMAIN r : r[d] = WorkflowError THEN WorkflowError
        ELSE RulesOfFiles(t))

\* The same rules with rule 1 read in the iteration order of the dependency
\* set: the first dependency that should run, or that raises, decides.
RECURSIVE RulesInOrder(_), FirstDecisive(_)
FirstDecisive(ds) ==
    IF ds = <<>> THEN "false"
    ELSE Let(RulesInOrder(Head(ds)), LAMBDA r :
             IF r = "false" THEN FirstDecisive(Tail(ds)) ELSE r)

RulesInOrder(t) ==
    Let(FirstDecisive(SetIter(dependencies(t))), LAMBDA r :
        IF r # "false" THEN r ELSE RulesOfFiles(t))

\* C6 as claimed: should_run(t) is the result of the ordered rules, true
\* whenever some dependency should run.
C6_ShouldRunIsRules ==
    \A k \in DOMAIN calls :
        calls[k].op = "should_run" => calls[k].res = Rules(calls[k].t)

\* C6 as amended: should_run(t) is the result of the ordered rules, where
\* rule 1 asks the dependencies in the iteration order of the dependency set
\* and the first that should run (true) or that raises (the error) decides.
C6_ShouldRunIsRulesInOrder ==
    \A k \in DOMAIN calls :
        calls[k].op = "should_run" => calls[k].res = RulesInOrder(calls[k].t)

\* should_run reached rule 6 with equal timestamps and returned false, and
\* reached it with a younger input and returned true.
C6_Witness ==
    /\ Len(calls) = 2
    /\ calls[1].t = "A" /\ calls[1].res = "false"
    /\ calls[2].t = "B" /\ calls[2].res = "true"
    /\ \A p \in PathsOf(targets) : fs[p] # Missing
    /\ fs["b"] = fs["a"]
    /\ "ext" \in PathsOf(targets) /\ fs["ext"] > fs["b"]

\* C7 as claimed: when a direct dependency of t should run, should_run(t)
\* is true.
C7_Monotone ==
    \A k \in DOMAIN calls :
        calls[k].op = "should_run"
            => \A d \in dependencies(calls[k].t) :
                  sr_cache[d] = "true" => calls[k].res = "true"

\* C7 as amended: when a direct dependency of t should run, should_run(t)
\* is true, or raises the error raised by another dependency of t.
C7_MonotoneOrRaises ==
    \A k \in DOMAIN calls :
        calls[k].op = "should_run"
            => \A d \in dependencies(calls[k].t) :
                  sr_cache[d] = "true"
                      => \/ calls[k].res = "true"
                         \/ /\ calls[k].res = WorkflowError
                            /\ \E e \in dependencies(calls[k].t) \ {d} :
                                  RulesInOrder(e) = WorkflowError

\* should_run was true for a dependency and then for its dependent.
C7_Witness ==
    /\ Len(calls) = 2
    /\ calls[1].t \in dependencies(calls[2].t)
    /\ calls[1].res = "true"
    /\ calls[2].res = "true"

\* The table of status over the persisted state and should_run.
StatusTable(state, sr) ==
    IF state \in {UNKNOWN, COMPLETED}
    THEN (IF sr = "true" THEN SHOULDRUN ELSE COMPLETED)
    ELSE state

\* C9 as claimed: status(t) always returns one of the seven statuses, the
\* one the table gives for t's persisted state and should_run(t).
C9_StatusIsTotal ==
    \A k \in DOMAIN calls :
        calls[k].op = "status"
            => /\ calls[k].res \in TargetStatus
               /\ calls[k].res = StatusTable(meta[calls[k].t], sr_cache[calls[k].t])

\* C9 as amended: when should_run(t) returns, status(t) returns one of the
\* seven statuses, the one the table gives for t's persisted state after
\* update_state and should_run(t); when should_run(t) raises, status(t)
\* raises that error, whatever the persisted state.
C9_StatusIsTable ==
    \A k \in DOMAIN calls :
        calls[k].op = "status"
            => IF RulesInOrder(calls[k].t) \in Errors
               THEN calls[k].res = RulesInOrder(calls[k].t)
               ELSE /\ calls[k].res \in TargetStatus
                    /\ calls[k].res =
                          StatusTable(meta[calls[k].t], sr_cache[calls[k].t])

\* status answered KILLED for a target that should run.
C9_Witness ==
    /\ Len(calls) = 1
    /\ calls[1].op = "status"
    /\ calls[1].res = KILLED
    /\ sr_cache[calls[1].t] = "true"

\* C10: after update_state(t), t is UNKNOWN when some direct dependency is
\* FAILED, KILLED, CANCELLED or UNKNOWN after its own update, and keeps the
\* state it had when every direct dependency is SUBMITTED, RUNNING or
\* COMPLETED.
C10_PropagatedReset ==
    \A k \in DOMAIN calls :
        calls[k].op = "update_state"
            => LET t == calls[k].t
               IN /\ (\E d \in dependencies(t) :
                         meta[d] \in {FAILED, KILLED, CANCELLED, UNKNOWN})
                        => meta[t] = UNKNOWN
                  /\ (\A d \in dependencies(t) :
                         meta[d] \in {SUBMITTED, RUNNING, COMPLETED})
                        => meta[t] = calls[k].before

\* update_state reset a COMPLETED target because its COMPLETED dependency
\* was itself reset by the recursive update.
C10_Witness ==
    /\ Len(calls) = 1
    /\ calls[1].op = "update_state"
    /\ calls[1].before = COMPLETED
    /\ meta[calls[1].t] = UNKNOWN
    /\ \E d \in dependencies(calls[1].t) : meta0[d] = COMPLETED /\ meta[d] = UNKNOWN

\* C11: with dry-run enabled every target's persisted state stays what it
\* was before the schedule calls.
C11_DryRunKeepsStates == dry_run => meta = meta0

\* C12: with dry-run enabled backend.submit is never called; a call that
\* decides its target must run adds it to the pretend set, which only grows;
\* and schedule(t) for t in the pretend set returns true in the step of its
\* gate, without a frame that would schedule its dependencies.
C12_DryRunPretends ==
    [][dry_run =>
        /\ submits' = <<>>
        /\ pretend_known \subseteq pretend_known'
        /\ (Len(calls') > Len(calls) /\ calls'[Len(calls')].p1)
              => calls'[Len(calls')].t \in pretend_known'
        /\ \A t \in pretend_known :
              (/\ stack = <<>>
               /\ \/ stack' # <<>> /\ stack'[Len(stack')].t = t
                  \/ Len(calls') > Len(calls) /\ calls'[Len(calls')].t = t)
                 => /\ stack' = <<>>
                    /\ calls'[Len(calls')].res = "true"
                    /\ calls'[Len(calls')].p0]_vars

\* Under dry-run a call added its target to the pretend set and the next
\* call for the same target returned true from the set.
C12_Witness ==
    /\ dry_run
    /\ Len(calls) = 2
    /\ calls[1].p1 /\ calls[1].res = "true"
    /\ calls[2].t = calls[1].t /\ calls[2].p0 /\ calls[2].res = "true"
    /\ dependencies(calls[2].t) # {}
    /\ submits = <<>>

\* ------------------------------------------------------- graph construction
\* The largest number of input paths of a target handed to Graph.from_targets.
MaxIn == 2
\* The largest number of output paths of a target of the two-target inputs.
MaxOut == 2

\* The marks of _check_for_circular_dependencies.
fresh == 0
started == 1
done == 2

GraphPaths == {"a", "b", "c"}
PathOrder == <<"a", "b", "c">>

\* The lists of at most n distinct input paths, and of at most n output
\* paths in any order, repeated or not.
InputLists(n) ==
    {SelectSeq(PathOrder, LAMBDA p : p \in S) :
        S \in {X \in SUBSET GraphPaths : Cardinality(X) <= n}}
OutputLists(n) == UNION {[1..k -> GraphPaths] : k \in 0..n}

\* The targets mappings handed to from_targets: three targets with at most
\* one output each, or two targets with up to MaxOut outputs each.
GraphInputs ==
    [{"A", "B", "C"} ->
        {T(i, o) : i \in InputLists(MaxIn),
                   o \in {<<>>} \cup {<<q>> : q \in GraphPaths}}]
    \cup [{"A", "B"} ->
        {T(i, o) : i \in InputLists(MaxIn), o \in OutputLists(MaxOut)}]

\* targets.values(): the targets in the order of the mapping.
values(w) == SortedByName(DOMAIN w)

\* The (target, path) pairs the nested loops over outputs, or inputs, visit.
RECURSIVE PathPairs(_, _, _)
PathPairs(w, ts, side) ==
    IF ts = <<>> THEN <<>>
    ELSE LET ps == IF side = "outputs" THEN w[Head(ts)].outputs
                   ELSE w[Head(ts)].inputs
         IN [i \in DOMAIN ps |-> [t |-> Head(ts), p |-> ps[i]]]
            \o PathPairs(w, Tail(ts), side)

\* A later provider of a path silently replaces the earlier one.
RECURSIVE add_provides_Overwriting(_, _)
add_provides_Overwriting(pairs, prov) ==
    IF pairs = <<>> THEN [err |-> "none", provides |-> prov]
    ELSE add_provides_Overwriting(Tail(pairs),
             [q \in DOMAIN prov \cup {Head(pairs).p} |->
                 IF q = Head(pairs).p THEN Head(pairs).t ELSE prov[q]])

\* Lines 146-153: provides[path] = target, unless path is already a key.
RECURSIVE add_provides(_, _)
add_provides(pairs, prov) ==
    IF pairs = <<>> THEN [err |-> "none", provides |-> prov]
    ELSE IF Head(pairs).p \in DOMAIN prov
    THEN [err |-> WorkflowError, why |-> "provided by targets",
          path |-> Head(pairs).p, first |-> prov[Head(pairs).p],
          second |-> Head(pairs).t]
    ELSE add_provides(Tail(pairs), prov @@ (Head(pairs).p :> Head(pairs).t))

\* Lines 155-160: dependencies[target].add(provides[path]), or
\* unresolved.add(path).
RECURSIVE add_dependencies(_, _, _, _)
add_dependencies(pairs, prov, deps, unres) ==
    IF pairs = <<>> THEN [dependencies |-> deps, unresolved |-> unres]
    ELSE LET t == Head(pairs).t
             q == Head(pairs).p
         IN IF q \in DOMAIN prov
            THEN add_dependencies(Tail(pairs), prov,
                     [deps EXCEPT ![t] = @ \cup {prov[q]}], unres)
            ELSE add_dependencies(Tail(pairs), prov, deps, unres \cup {q})

\* The dependent is filed under itself instead of under its dependency.
RECURSIVE add_dependents_Swapped(_, _, _)
add_dependents_Swapped(ts, deps, dpts) ==
    IF ts = <<>> THEN dpts
    ELSE add_dependents_Swapped(Tail(ts), deps,
             [d \in DOMAIN dpts |->
                 IF deps[Head(ts)] # {} /\ d = Head(ts)
                 THEN dpts[d] \cup {Head(ts)} ELSE dpts[d]])

\* Lines 162-164: dependents[dep].add(target) for every dep of every target.
RECURSIVE add_dependents(_, _, _)
add_dependents(ts, deps, dpts) ==
    IF ts = <<>> THEN dpts
    ELSE add_dependents(Tail(ts), deps,
             [d \in DOMAIN dpts |->
                 IF d \in deps[Head(ts)] THEN dpts[d] \cup {Head(ts)} ELSE dpts[d]])

\* A started dependency is passed over like a done one.
RECURSIVE visitor(_, _, _), visit_deps(_, _, _, _)
visit_deps_IgnoringStarted(node, ds, st, deps) ==
    IF ds = <<>> THEN [err |-> "none", state |-> st]
    ELSE IF st[Head(ds)] = fresh
    THEN Let(visitor(Head(ds), st, deps), LAMBDA r :
             IF r.err # "none" THEN r
             ELSE visit_deps(node, Tail(ds), r.state, deps))
    ELSE visit_deps(node, Tail(ds), st, deps)

\* Lines 189-193: the loop of visitor over the dependencies of node.
visit_deps(node, ds, st, deps) ==
    IF ds = <<>> THEN [err |-> "none", state |-> st]
    ELSE IF st[Head(ds)] = started
    THEN [err |-> WorkflowError, why |-> "depends on itself", at |-> node]
    ELSE IF st[Head(ds)] = fresh
    THEN Let(visitor(Head(ds), st, deps), LAMBDA r :
             IF r.err # "none" THEN r
             ELSE visit_deps(node, Tail(ds), r.state, deps))
    ELSE visit_deps(node, Tail(ds), st, deps)

\* Lines 187-194: visitor(node).
visitor(node, st, deps) ==
    Let(visit_deps(node, SetIter(deps[node]), [st EXCEPT ![node] = started], deps),
        LAMBDA r : IF r.err # "none" THEN r
                   ELSE [err |-> "none", state |-> [r.state EXCEPT ![node] = done]])

\* Lines 196-198: visitor runs from every node that is still fresh.
RECURSIVE check_nodes(_, _, _)
check_nodes(ns, st, deps) ==
    IF ns = <<>> THEN [err |-> "none", state |-> st]
    ELSE IF st[Head(ns)] = fresh
    THEN Let(visitor(Head(ns), st, deps), LAMBDA r :
             IF r.err # "none" THEN r ELSE check_nodes(Tail(ns), r.state, deps))
    ELSE check_nodes(Tail(ns), st, deps)

\* Lines 175-198.
_check_for_circular_dependencies(w, deps) ==
    check_nodes(values(w), [n \in DOMAIN w |-> fresh], deps)

\* Graph.from_targets, with the check Graph.__init__ ends with: the graph, or
\* the WorkflowError raised.
from_targets(w) ==
    Let(add_provides(PathPairs(w, values(w), "outputs"), <<>>), LAMBDA pr :
        IF pr.err # "none" THEN pr
        ELSE Let(add_dependencies(PathPairs(w, values(w), "inputs"), pr.provides,
                                  [t \in DOMAIN w |-> {}], {}), LAMBDA dr :
             Let(add_dependents(values(w), dr.dependencies,
                                [t \in DOMAIN w |-> {}]), LAMBDA dpts :
             Let(_check_for_circular_dependencies(w, dr.dependencies), LAMBDA ck :
                 IF ck.err # "none" THEN ck
                 ELSE [err |-> "none", targets |-> w, provides |-> pr.provides,
                       dependencies |-> dr.dependencies, dependents |-> dpts,
                       unresolved |-> dr.unresolved]))))

\* A visited node is visited again.
RECURSIVE dfs_inner(_, _, _), dfs_deps(_, _, _)
dfs_inner_Revisiting(node, r, deps) ==
    Let(dfs_deps(SetIter(deps[node]),
                 [visited |-> r.visited \cup {node}, path |-> r.path], deps),
        LAMBDA r1 : [visited |-> r1.visited, path |-> Append(r1.path, node)])

\* Lines 215-216: dfs_inner(dep) for every dependency.
dfs_deps(ds, r, deps) ==
    IF ds = <<>> THEN r ELSE dfs_deps(Tail(ds), dfs_inner(Head(ds), r, deps), deps)

\* Lines 210-217: dfs_inner(node) over the visited set and the path.
dfs_inner(node, r, deps) ==
    IF node \in r.visited THEN r
    ELSE Let(dfs_deps(SetIter(deps[node]),
                      [visited |-> r.visited \cup {node}, path |-> r.path], deps),
             LAMBDA r1 : [visited |-> r1.visited, path |-> Append(r1.path, node)])

\* Lines 205-220.
dfs(root, deps) == dfs_inner(root, [visited |-> {}, path |-> <<>>], deps).path

\* A client builds the graph of the targets.
FromTargetsCall ==
    /\ calls = <<>>
    /\ \E g \in {from_targets(targets)} :
          calls' = <<[op |-> "from_targets", t |-> "", graph |-> g,
                      res |-> IF g.err = "none" THEN "graph" ELSE g.err]>>
    /\ UNCHANGED <<scheduler, options0, option_defaults, targets, set_order, fs, file_cache, sr_cache, meta, meta0,
                   dry_run, pretend_known, stack, submits>>

\* A client asks the graph it has built for dfs(root).
DfsCall(root) ==
    /\ calls # <<>>
    /\ calls[1].res = "graph"
    /\ Len(calls) <= MaxQueries
    /\ calls' = Append(calls, [op |-> "dfs", t |-> root,
                               res |-> dfs(root, calls[1].graph.dependencies)])
    /\ UNCHANGED <<scheduler, options0, option_defaults, targets, set_order, fs, file_cache, sr_cache, meta, meta0,
                   dry_run, pretend_known, stack, submits>>

\* Graph construction and traversal, over every targets mapping of the bounds.
InitGraph ==
    /\ option_defaults = NoOptions
    /\ targets \in GraphInputs
    /\ options0 = [t \in DOMAIN targets |-> targets[t].options]
    /\ set_order \in {NameOrder, Reverse(NameOrder)}
    /\ fs = [p \in Paths |-> Missing]
    /\ meta = [t \in DOMAIN targets |-> UNKNOWN]
    /\ meta0 = meta
    /\ dry_run = FALSE
    /\ InitScheduler

NextGraph ==
    \/ FromTargetsCall
    \/ \E root \in DOMAIN targets : DfsCall(root)

SpecGraph == InitGraph /\ [][NextGraph]_vars

\* The output and input paths of a target of the mapping w.
OutputsOf(w, t) == Range(w[t].outputs)
InputsOf(w, t) == Range(w[t].inputs)

\* Two distinct targets list the same path among their outputs.
SharedOutput(w) ==
    \E t, u \in DOMAIN w : t # u /\ OutputsOf(w, t) \cap OutputsOf(w, u) # {}

\* A target lists a path more than once among its own outputs.
RepeatedOutput(w) ==
    \E t \in DOMAIN w : Len(w[t].outputs) > Cardinality(OutputsOf(w, t))

\* The relation the targets induce: u depends on t when an input path of u
\* is an output path of t.
DependsOn(w) ==
    {e \in (DOMAIN w) \X (DOMAIN w) : InputsOf(w, e[1]) \cap OutputsOf(w, e[2]) # {}}

\* The targets reached from the set S through one or more edges of rel.
RECURSIVE Grow(_, _)
Grow(S, rel) ==
    LET N == S \cup {e[2] : e \in {x \in rel : x[1] \in S}}
    IN IF N = S THEN S ELSE Grow(N, rel)
ReachedFrom(t, rel) == Grow({e[2] : e \in {x \in rel : x[1] = t}}, rel)
HasCycle(w) == \E t \in DOMAIN w : t \in ReachedFrom(t, DependsOn(w))

\* C13: when two distinct targets list the same output path, from_targets
\* raises the multi-provider error, yields no graph, and nothing is asked of
\* a graph afterwards.
C13_MultiProvider ==
    \A k \in DOMAIN calls :
        (calls[k].op = "from_targets" /\ SharedOutput(targets))
            => /\ calls[k].res = WorkflowError
               /\ calls[k].graph.why = "provided by targets"
               /\ "dependencies" \notin DOMAIN calls[k].graph
               /\ Len(calls) = 1

\* from_targets refused two distinct targets that provide the same path.
C13_Witness ==
    /\ calls # <<>>
    /\ calls[1].op = "from_targets"
    /\ calls[1].res = WorkflowError
    /\ calls[1].graph.why = "provided by targets"
    /\ calls[1].graph.first # calls[1].graph.second

\* C14: a target that repeats a path in its own outputs is accepted: when no
\* two distinct targets share an output and there is no cycle, from_targets
\* builds the graph, and the repeated path is provided by that target.
C14_RepeatedOutputPermitted ==
    \A k \in DOMAIN calls :
        (/\ calls[k].op = "from_targets"
         /\ RepeatedOutput(targets)
         /\ ~SharedOutput(targets)
         /\ ~HasCycle(targets))
            => /\ calls[k].res = "graph"
               /\ \A t \in DOMAIN targets : \A q \in OutputsOf(targets, t) :
                     calls[k].graph.provides[q] = t

C16_DependentsMirror ==
    \A k \in DOMAIN calls :
        (calls[k].op = "from_targets" /\ calls[k].res = "graph")
            => \A t, u \in DOMAIN targets :
                  /\ t \in calls[k].graph.dependencies[u]
                        <=> u \in calls[k].graph.dependents[t]
                  /\ t \in calls[k].graph.dependencies[u]
                        <=> <<u, t>> \in DependsOn(targets)

\* A graph was built in which one target has two dependents and another has
\* two dependencies.
C16_Witness ==
    /\ calls # <<>>
    /\ calls[1].op = "from_targets"
    /\ calls[1].res = "graph"
    /\ \E t \in DOMAIN targets : Cardinality(calls[1].graph.dependents[t]) = 2
    /\ \E u \in DOMAIN targets : Cardinality(calls[1].graph.dependencies[u]) = 2

\* C17: dfs(root) lists root and the targets reached from it through
\* dependencies, each once and nothing else, every dependency of a listed
\* target before the target.
C17_DfsPostOrder ==
    \A k \in DOMAIN calls :
        calls[k].op = "dfs"
            => LET path == calls[k].res
                   deps == calls[1].graph.dependencies
               IN /\ Range(path) = {calls[k].t}
                        \cup ReachedFrom(calls[k].t, DependsOn(targets))
                  /\ Len(path) = Cardinality(Range(path))
                  /\ \A i \in DOMAIN path : \A d \in deps[path[i]] :
                        \E j \in 1..(i - 1) : path[j] = d

\* dfs listed three targets where one is reached from the root directly and
\* through another.
C17_Witness ==
    /\ Len(calls) = 2
    /\ calls[2].op = "dfs"
    /\ Len(calls[2].res) = 3
    /\ \E d \in calls[1].graph.dependencies[calls[2].t] :
          calls[1].graph.dependencies[d] \cap calls[1].graph.dependencies[calls[2].t] # {}

\* ------------------------------------------------- one call, with failures
\* What the state store and the backend raise when they fail.
StoreError == "StoreError"
BackendError == "BackendError"

\* D consumes a, b and c; A consumes c: C is a sibling of A and B under D
\* and a dependency of A.
WfFan ==
    [A |-> T(<<"c">>, <<"a">>), B |-> T(<<>>, <<"b">>), C |-> T(<<>>, <<"c">>),
     D |-> T(<<"a", "b", "c">>, <<"d">>)]
\* D consumes a and b, A consumes b, B consumes c: B is reached from D
\* through A and directly.
WfRevisit ==
    [A |-> T(<<"b">>, <<"a">>), B |-> T(<<"c">>, <<"b">>), C |-> T(<<>>, <<"c">>),
     D |-> T(<<"a", "b">>, <<"d">>)]
PassWorkflows == {WfFan, WfRevisit}

\* A caller calls schedule(t) on a fresh scheduler, once.
ScheduleCall(t) ==
    /\ stack = <<>>
    /\ calls = <<>>
    /\ Gate(t, <<>>)

\* Lines 348-351 raise: reset, submitted or commit fails, nothing is
\* committed, and the error leaves schedule before backend.submit.
CommitFails ==
    /\ stack # <<>>
    /\ Top.phase = "deps"
    /\ Top.todo = <<>>
    /\ ~dry_run
    /\ \E s \in {decide_status} :
          /\ s.st \notin Errors
          /\ must_run(Top.sub, s.st)
          /\ sr_cache' = s.sc
          /\ file_cache' = s.fc
          /\ meta' = s.meta
          /\ stack' = <<>>
          /\ calls' = Raised(Top.t, StoreError, Tail(stack))
    /\ UNCHANGED <<scheduler, options0, option_defaults, targets, set_order, fs, meta0, dry_run, pretend_known, submits>>

\* Line 353 raises: backend.submit fails after the commit, and the error
\* leaves schedule.
SubmitFails ==
    /\ stack # <<>>
    /\ Top.phase = "submit"
    /\ stack' = <<>>
    /\ calls' = Raised(Top.t, BackendError, Tail(stack))
    /\ UNCHANGED <<scheduler, options0, option_defaults, targets, set_order, fs, file_cache, sr_cache, meta, meta0,
                   dry_run, pretend_known, submits>>

\* The states the store of a four-target pass starts from: RUNNING is left
\* to the three-target passes.
FourTargetStates == {UNKNOWN, SUBMITTED, COMPLETED, FAILED}

\* One schedule call on a four-target workflow, in which the state store
\* or the backend may fail.
InitPass ==
    /\ option_defaults = NoOptions
    /\ targets \in PassWorkflows
    /\ options0 = [t \in DOMAIN targets |-> targets[t].options]
    /\ set_order \in SetOrders(targets)
    /\ fs \in FileSystems(targets, MaxPassTime)
    /\ meta \in [DOMAIN targets -> FourTargetStates]
    /\ meta0 = meta
    /\ dry_run = FALSE
    /\ InitScheduler

NextPass ==
    \/ \E t \in DOMAIN targets : ScheduleCall(t)
    \/ Descend
    \/ Decide
    \/ Submit
    \/ CommitFails
    \/ SubmitFails

SpecPass == InitPass /\ [][NextPass]_vars

\* The place of a name in the lexicographic order.
NameIndex(t) == CHOOSE i \in DOMAIN NameOrder : NameOrder[i] = t

\* The submissions made while the schedule call that made submission k ran,
\* before k itself.
Window(k) == (submits[k].n0 + 1)..(k - 1)

\* The first submission of d in the window of k (0 when there is none).
FirstIn(k, d) ==
    LET I == {i \in Window(k) : submits[i].t = d}
    IN IF I = {} THEN 0 ELSE Min(I)

\* The direct and transitive dependencies of t.
Upstream(t) == ReachedFrom(t, DependsOn(targets))

\* C18 as claimed: when d1 and d2 are direct dependencies of t, both
\* submitted while scheduling t, and d1 sorts before d2, every submission of
\* d1 precedes every submission of d2.
C18_SiblingOrder ==
    \A k \in DOMAIN submits :
        \A d1, d2 \in dependencies(submits[k].t) :
            NameIndex(d1) < NameIndex(d2)
                => \A i1, i2 \in Window(k) :
                      (submits[i1].t = d1 /\ submits[i2].t = d2) => i1 < i2

\* C18 as amended: when moreover d2 is not a direct or transitive dependency
\* of d1 nor of a direct dependency of t that sorts before d1, the first
\* submission of d1 precedes the first submission of d2.
C18_SiblingOrderUnrelated ==
    \A k \in DOMAIN submits :
        \A d1, d2 \in dependencies(submits[k].t) :
            (/\ NameIndex(d1) < NameIndex(d2)
             /\ FirstIn(k, d1) # 0
             /\ FirstIn(k, d2) # 0
             /\ \A e \in dependencies(submits[k].t) :
                   NameIndex(e) <= NameIndex(d1) => d2 \notin Upstream(e))
                => FirstIn(k, d1) < FirstIn(k, d2)

\* D was submitted after A, B and C, where C was submitted before B as a
\* dependency of A, and A before B as its unrelated sibling.
C18_Witness ==
    /\ Len(submits) = 4
    /\ submits[4].t = "D" /\ submits[4].n0 = 0
    /\ submits[1].t = "C" /\ submits[2].t = "A" /\ submits[3].t = "B"
    /\ dependencies("D") = {"A", "B", "C"}

\* The targets that depend on t, directly or transitively.
Downstream(t) == {u \in DOMAIN targets : t \in Upstream(u)}

\* C19: when the state-store mutation for a target fails, the error leaves
\* the call, and backend.submit was called in that call neither for the
\* target nor for a dependent of it.
C19_StoreFailure ==
    \A k \in DOMAIN calls :
        calls[k].res = StoreError
            => /\ stack = <<>>
               /\ \A u \in {calls[k].at} \cup Downstream(calls[k].at) :
                     u \notin SubmittedDuring(calls[k])

\* C20: when backend.submit fails for a target, the error leaves the call,
\* the target and the dependencies submitted before stay SUBMITTED, and no
\* dependent of the target is submitted.
C20_SubmitFailure ==
    \A k \in DOMAIN calls :
        calls[k].res = BackendError
            => /\ stack = <<>>
               /\ meta[calls[k].at] = SUBMITTED
               /\ \A d \in Upstream(calls[k].at) \cap Submitted : meta[d] = SUBMITTED
               /\ \A u \in Downstream(calls[k].at) : u \notin Submitted

\* ------------------------------------------------------ option normalisation
\* The largest value a backend gives an option by default; a target may set
\* one value more.
MaxOptionValue == 1

OptionNames == {"cores", "memory"}

\* The mappings from some of the names K to a value of V.
PartialMaps(K, V) == UNION {[S -> V] : S \in SUBSET K}

\* Backend.option_defaults: some options, each with a default or None.
DefaultMaps == PartialMaps(OptionNames, {None} \cup (1..MaxOptionValue))
\* Target.options: some options, each set to a value or to None.
OptionMaps == PartialMaps(OptionNames, {None} \cup (1..(MaxOptionValue + 1)))

\* B consumes the output of A, and both carry options of their own.
WfPair(oa, ob) ==
    [A |-> [inputs |-> <<>>, outputs |-> <<"a">>, options |-> oa],
     B |-> [inputs |-> <<"a">>, outputs |-> <<"b">>, options |-> ob]]

\* Schedule calls on a workflow that has never run, over every mapping of
\* backend defaults and every options mapping of the two targets.
InitOptions ==
    /\ option_defaults \in DefaultMaps
    /\ targets \in {WfPair(oa, ob) : oa \in OptionMaps, ob \in OptionMaps}
    /\ options0 = [t \in DOMAIN targets |-> targets[t].options]
    /\ set_order = NameOrder
    /\ fs = [p \in Paths |-> Missing]
    /\ meta = [t \in DOMAIN targets |-> UNKNOWN]
    /\ meta0 = meta
    /\ dry_run = FALSE
    /\ InitScheduler

NextOptions ==
    \/ \E t \in DOMAIN targets : Call(t)
    \/ Descend
    \/ Decide
    \/ Submit

SpecOptions == InitOptions /\ [][NextOptions]_vars

\* A schedule call has returned or raised for t: its options were normalised.
Normalised(t) == \E k \in DOMAIN calls : calls[k].t = t

\* C21: once the options of a target have been normalised by a schedule call,
\* no later step changes them.
C21_NormalisedOnce ==
    [][\A t \in DOMAIN targets :
          Normalised(t) => targets'[t].options = targets[t].options]_vars

\* A step is the entry of a top-level schedule call.
IsCallStep == stack = <<>> /\ (stack' # <<>> \/ Len(calls') > Len(calls))
\* The target of that call.
CalledTarget == IF stack' # <<>> THEN stack'[1].t ELSE calls'[Len(calls')].t

\* What normalisation promises of the options after, given those before.
OptionsNormalised(before, after) ==
    /\ DOMAIN after \subseteq DOMAIN option_defaults
    /\ \A k \in DOMAIN after : after[k] # None
    /\ \A k \in DOMAIN before \cap DOMAIN option_defaults :
          before[k] # None => (k \in DOMAIN after /\ after[k] = before[k])
    /\ \A k \in DOMAIN option_defaults \ DOMAIN before :
          option_defaults[k] # None
              => (k \in DOMAIN after /\ after[k] = option_defaults[k])

\* C22: the entry of schedule(t) leaves t with options that are recognised
\* and not None, the target's own value where it set one, the default where
\* it set none; and with an unsupported option the call goes on to its frame
\* or to its result.
C22_OptionsNormalised ==
    [][IsCallStep =>
          /\ OptionsNormalised(targets[CalledTarget].options,
                               targets'[CalledTarget].options)
          /\ (DOMAIN targets[CalledTarget].options \ DOMAIN option_defaults # {})
                => \/ stack' # <<>> /\ stack'[1].phase = "deps"
                   \/ calls'[Len(calls')].res \in {"true", "false"}]_vars

\* A target declared with an unsupported option was submitted, with the
\* default of an option it had set to None or had not set.
C22_Witness ==
    \E t \in Submitted :
       /\ DOMAIN options0[t] \ DOMAIN option_defaults # {}
       /\ \E k \in DOMAIN option_defaults :
             /\ k \in DOMAIN targets[t].options
             /\ k \in DOMAIN options0[t] => options0[t][k] = None

\* ------------------------------------------- file-system changes mid-pass
\* Another process creates, removes or re-timestamps the file at path p.
Touch(p) ==
    /\ \E v \in ({Missing} \cup (1..MaxTime)) \ {fs[p]} : fs' = [fs EXCEPT ![p] = v]
    /\ UNCHANGED <<scheduler, options0, option_defaults, targets, set_order, file_cache, sr_cache,
                   meta, meta0, dry_run, pretend_known, stack, submits, calls>>

\* should_run asked on one scheduler while the file system changes.
NextTouched ==
    \/ \E t \in DOMAIN targets : ShouldRunCall(t)
    \/ \E p \in PathsOf(targets) : Touch(p)

SpecTouched == InitShouldRun /\ [][NextTouched]_vars

\* C23: a path that has been probed keeps its value in the file cache
\* through every later step, and two should_run calls for the same target
\* give the same result, whatever file-system changes come between.
C23_ConsistentPass ==
    [][/\ \A p \in Paths :
             file_cache[p] # Unprobed => file_cache'[p] = file_cache[p]
       /\ \A i, j \in DOMAIN calls' :
             (calls'[i].op = "should_run" /\ calls'[j].op = "should_run"
              /\ calls'[i].t = calls'[j].t)
                => calls'[i].res = calls'[j].res]_vars

\* should_run answered twice for a target whose answer, computed from the
\* file system as it is now, would be another.
C23_Witness ==
    /\ Len(calls) = 2
    /\ calls[1].t = calls[2].t
    /\ calls[1].res = calls[2].res
    /\ RulesInOrder(calls[2].t) # calls[2].res
    /\ \E p \in Paths : file_cache[p] \notin {Unprobed, fs[p]}

\* ------------------------------------------------------- one schedule call
\* C24: in the single schedule call of a pass without dry-run, backend.submit
\* is called at most once for each target.
C24_SubmittedAtMostOnce ==
    ~dry_run => \A t \in DOMAIN targets : SubmitCount(t) <= 1

\* schedule_many has returned: every schedule call it made has returned.
ReturnedNormally ==
    /\ stack = <<>>
    /\ calls # <<>>
    /\ \A k \in DOMAIN calls : calls[k].res \in {"true", "false"}

\* C25: when schedule_many has returned without dry-run, every target
\* backend.submit was called for is persisted SUBMITTED, and a target it was
\* not called for has the state the pass found or the UNKNOWN of a reset.
C25_SubmittedIffSubmitted ==
    (~dry_run /\ ReturnedNormally)
        => /\ \A t \in Submitted : meta[t] = SUBMITTED
           /\ \A t \in DOMAIN targets \ Submitted : meta[t] \in {meta0[t], UNKNOWN}

\* schedule_many([C, C]) returned after the second call submitted again a
\* target that the update_state of its gate had reset.
C25_Witness ==
    /\ ~dry_run
    /\ ReturnedNormally
    /\ Len(calls) = 2
    /\ calls[1].t = calls[2].t
    /\ \E t \in DOMAIN targets : SubmitCount(t) = 2

\* ------------------------------------------- one call, every persisted state
\* One schedule call on a three- or two-target workflow whose state store
\* holds any of the seven states.
InitStates ==
    /\ option_defaults = NoOptions
    /\ targets \in Workflows
    /\ options0 = [t \in DOMAIN targets |-> targets[t].options]
    /\ set_order \in SetOrders(targets)
    /\ fs \in FileSystems(targets, MaxPassTime)
    /\ meta \in [DOMAIN targets -> TargetStates]
    /\ meta0 = meta
    /\ dry_run = FALSE
    /\ InitScheduler

NextStates ==
    \/ \E t \in DOMAIN targets : ScheduleCall(t)
    \/ Descend
    \/ Decide
    \/ Submit

SpecStates == InitStates /\ [][NextStates]_vars

\* The persisted state of t once update_state(t) has run: UNKNOWN when some
\* direct dependency is then FAILED, KILLED, CANCELLED or UNKNOWN.
RECURSIVE StateAfterUpdate(_)
StateAfterUpdate(t) ==
    IF \E d \in dependencies(t) :
          StateAfterUpdate(d) \in {FAILED, KILLED, CANCELLED, UNKNOWN}
    THEN UNKNOWN
    ELSE meta[t]

\* The status of t: the table over that state and the memoised should_run.
StatusNow(t) == StatusTable(StateAfterUpdate(t), sr_cache[t])

\* The dependencies of the top frame have all been scheduled.
DepsScheduled == stack # <<>> /\ Top.phase = "deps" /\ Top.todo = <<>>
\* The step commits the top frame's target and goes on to backend.submit.
GoesToSubmit ==
    /\ Len(stack') = Len(stack)
    /\ stack'[1].t = Top.t
    /\ stack'[1].phase = "submit"
    /\ meta'[Top.t] = SUBMITTED

\* C26: once its dependencies have been scheduled, a target goes on to
\* backend.submit exactly when a dependency's schedule returned true or its
\* status is FAILED, KILLED, CANCELLED or SHOULDRUN: so with one of the
\* first three whatever should_run says, and with status COMPLETED when a
\* dependency was submitted.
C26_MustRun ==
    [][DepsScheduled =>
          /\ GoesToSubmit
                <=> (Top.sub # {} \/ StatusNow(Top.t) \in {FAILED, KILLED, CANCELLED, SHOULDRUN})
          /\ (StatusNow(Top.t) \in {FAILED, KILLED, CANCELLED} /\ sr_cache[Top.t] = "false")
                => GoesToSubmit
          /\ (StatusNow(Top.t) = COMPLETED /\ Top.sub # {}) => GoesToSubmit]_vars

\* A KILLED target whose files are up to date was submitted, and then its
\* up-to-date COMPLETED dependent.
C26_Witness ==
    /\ Len(submits) = 2
    /\ meta0[submits[1].t] = KILLED /\ sr_cache[submits[1].t] = "false"
    /\ meta0[submits[2].t] = COMPLETED /\ sr_cache[submits[2].t] = "false"
    /\ submits[2].deps = {submits[1].t}

\* ------------------------------------------------------ the comparison
\* should_run(t) has returned from rule 6: it is memoised, t is neither a
\* sink nor a source, no dependency should run and no output is missing.
ReachedRule6(t) ==
    /\ sr_cache[t] # "none"
    /\ ~is_sink(t)
    /\ ~is_source(t)
    /\ \A d \in dependencies(t) : sr_cache[d] = "false"
    /\ \A p \in Range(flattened_outputs(t)) : file_cache[p] \notin {Missing, Unprobed}

\* C27: when should_run has compared the timestamps of a target, every input
\* and output path of the target has a timestamp in the file cache, and no
\* should_run call raises the TypeError of comparing None with a timestamp.
C27_NothingMissingAtRule6 ==
    /\ \A t \in DOMAIN targets :
          ReachedRule6(t)
              => \A p \in Range(flattened_inputs(t)) \cup Range(flattened_outputs(t)) :
                    file_cache[p] \notin {Missing, Unprobed}
    /\ \A k \in DOMAIN calls : calls[k].res # TypeError

\* should_run compared the timestamps of a target that has an input provided
\* by a dependency and an unresolved input, one of them removed since.
C27_Witness ==
    \E k \in DOMAIN calls :
       /\ calls[k].op = "should_run"
       /\ ReachedRule6(calls[k].t)
       /\ dependencies(calls[k].t) # {}
       /\ Range(flattened_inputs(calls[k].t)) \cap unresolved # {}
       /\ \E p \in Range(flattened_inputs(calls[k].t)) : fs[p] = Missing

\* ------------------------------------------------- one scheduler after another
\* The number of Scheduler instances created in one process.
MaxSchedulers == 2

\* Line 275: the default of the parameter file_cache is the FileCache() that
\* was built when the def statement ran, the same object at every call.
default_file_cache(fc) == fc

\* Scheduler(graph, backend) once the scheduler before it is done, without a
\* file_cache argument (lines 274-293): the default file cache, an empty
\* pretend set, and the should_run memo of a new instance.
NewScheduler ==
    /\ scheduler < MaxSchedulers
    /\ stack = <<>>
    /\ scheduler' = scheduler + 1
    /\ file_cache' = default_file_cache(file_cache)
    /\ sr_cache' = [t \in DOMAIN targets |-> "none"]
    /\ pretend_known' = {}
    /\ UNCHANGED <<options0, option_defaults, targets, set_order, fs, meta, meta0,
                   dry_run, stack, submits, calls>>

\* Schedulers created one after the other in a process, each asked
\* should_run, while the file system changes.
NextLifetime ==
    \/ \E t \in DOMAIN targets : ShouldRunCall(t)
    \/ \E p \in PathsOf(targets) : Touch(p)
    \/ NewScheduler

SpecLifetime == InitShouldRun /\ [][NextLifetime]_vars

\* C28: a scheduler created without a file_cache argument starts with no
\* probe result of an earlier scheduler, and the first should_run it answers
\* is the answer of the rules over the file system as it is then.
C28_OwnFileCache ==
    [][/\ scheduler' # scheduler => \A p \in Paths : file_cache'[p] = Unprobed
       /\ (/\ scheduler > 1
           /\ \A k \in DOMAIN calls : calls[k].by # scheduler
           /\ Len(calls') > Len(calls))
             => calls'[Len(calls')].res = RulesInOrder(calls'[Len(calls')].t)]_vars

\* The first scheduler found the output of A missing; the file was created;
\* the second scheduler still answers that A should run.
C28_StaleAnswer ==
    /\ scheduler = 2
    /\ Len(calls) = 2
    /\ calls[1].t = "A" /\ calls[2].t = "A"
    /\ calls[2].res = "true"
    /\ fs["a"] # Missing
    /\ file_cache["a"] = Missing

\* ------------------------------------------- a dry run, then the real run
\* The place in calls where the real run starts (0 before it does).
RerunAt ==
    IF \E k \in DOMAIN calls : calls[k].op = "rerun"
    THEN CHOOSE k \in DOMAIN calls : calls[k].op = "rerun"
    ELSE 0

\* schedule_many of the dry run calls schedule(t).
DryCall(t) ==
    /\ RerunAt = 0
    /\ Call(t)

\* The dry run has returned; the program is run again without dry-run, from
\* the graph, the file system and the state store the dry run started from.
\* The pretend set the dry run ended with is kept for the comparison.
Rerun ==
    /\ dry_run
    /\ stack = <<>>
    /\ calls # <<>>
    /\ \A k \in DOMAIN calls : calls[k].res \in {"true", "false"}
    /\ calls' = Append(calls, [op |-> "rerun", t |-> "", res |-> "rerun",
                               pretend |-> pretend_known])
    /\ dry_run' = FALSE
    /\ meta' = meta0
    /\ targets' = [t \in DOMAIN targets |-> [targets[t] EXCEPT !.options = options0[t]]]
    /\ file_cache' = [p \in Paths |-> Unprobed]
    /\ sr_cache' = [t \in DOMAIN targets |-> "none"]
    /\ pretend_known' = {}
    /\ UNCHANGED <<scheduler, options0, option_defaults, set_order, fs, meta0, stack,
                   submits>>

\* schedule_many of the real run calls schedule for the target the dry run
\* scheduled at the same place of the list.
RealCall ==
    /\ RerunAt # 0
    /\ stack = <<>>
    /\ Len(calls) - RerunAt < RerunAt - 1
    /\ \A k \in (RerunAt + 1)..Len(calls) : calls[k].res \in {"true", "false"}
    /\ Gate(calls[Len(calls) - RerunAt + 1].t, <<>>)

InitPredict ==
    /\ Init
    /\ dry_run

NextPredict ==
    \/ \E t \in DOMAIN targets : DryCall(t)
    \/ Rerun
    \/ RealCall
    \/ Descend
    \/ Decide
    \/ Submit

SpecPredict == InitPredict /\ [][NextPredict]_vars

\* The real run has made every call of the dry run.
RealRunDone ==
    /\ RerunAt # 0
    /\ stack = <<>>
    /\ Len(calls) = 2 * RerunAt - 1

\* C29: every schedule call of the real run returns what the same call of
\* the dry run returned, and when the real run is done the targets passed to
\* backend.submit are the pretend set the dry run ended with.
C29_DryRunPredicts ==
    /\ RerunAt # 0
          => \A k \in 1..(Len(calls) - RerunAt) :
                calls[RerunAt + k].res = calls[k].res
    /\ RealRunDone => Submitted = calls[RerunAt].pretend

\* ------------------------------------------------------- a RUNNING target
\* The step is a reset of t by update_state: t becomes UNKNOWN next to a
\* direct dependency that is FAILED, KILLED, CANCELLED or UNKNOWN.
ResetByUpdate(t) ==
    /\ meta'[t] = UNKNOWN
    /\ \E d \in dependencies(t) : meta'[d] \in {FAILED, KILLED, CANCELLED, UNKNOWN}

\* The step passes a target to backend.submit whose state is not RUNNING.
SubmitsNoRunning ==
    Len(submits') > Len(submits) => meta[submits'[Len(submits')].t] # RUNNING

\* C30 as claimed: a target persisted RUNNING keeps that state through every
\* step that is not a reset of it by update_state, and is not passed to
\* backend.submit.
C30_RunningUntouched ==
    [][/\ \A t \in DOMAIN targets :
             meta[t] = RUNNING => (meta'[t] = RUNNING \/ ResetByUpdate(t))
       /\ SubmitsNoRunning]_vars

\* C30 as amended: a target persisted RUNNING keeps that state through every
\* step that is not a reset of it by update_state, and is not passed to
\* backend.submit, unless the schedule of one of its dependencies returned
\* true: then it is committed SUBMITTED and submitted like any other target.
C30_RunningUntouchedUnlessDeps ==
    [][/\ \A t \in DOMAIN targets :
             meta[t] = RUNNING
                 => \/ meta'[t] = RUNNING
                    \/ ResetByUpdate(t)
                    \/ /\ meta'[t] = SUBMITTED
                       /\ DepsScheduled /\ Top.t = t /\ Top.sub # {}
       /\ SubmitsNoRunning]_vars

\* A schedule call for a RUNNING target returned false and left it RUNNING
\* after it had scheduled the target's dependency, which was not submitted.
C30_Witness ==
    /\ ~dry_run
    /\ \E k \in DOMAIN calls :
          /\ calls[k].res = "false"
          /\ dependencies(calls[k].t) # {}
          /\ meta0[calls[k].t] = RUNNING /\ meta[calls[k].t] = RUNNING
          /\ \E d \in dependencies(calls[k].t) : meta0[d] = COMPLETED

\* -------------------------------------------------------------- termination
\* The longest list of targets handed to schedule_many.
MaxList == 2

\* S5 of the specification: two targets that consume each other's output.
WfCycle ==
    [A |-> T(<<"b">>, <<"a">>), B |-> T(<<"a">>, <<"b">>)]
\* A consumes the file it produces.
WfSelf ==
    [A |-> T(<<"a">>, <<"a">>), B |-> T(<<"a">>, <<"b">>)]
\* C -> B -> A -> C.
WfLoop ==
    [A |-> T(<<"c">>, <<"a">>), B |-> T(<<"a">>, <<"b">>), C |-> T(<<"b">>, <<"c">>)]
\* The sink C consumes a and b, B consumes a: schedule reaches A from C
\* directly and through B.
WfDiamond ==
    [A |-> T(<<>>, <<"a">>), B |-> T(<<"a">>, <<"b">>), C |-> T(<<"a", "b">>, <<>>)]
\* The targets mappings a client hands to Graph.from_targets before it
\* schedules: a target reached along two paths, a target that needs an
\* unresolved file, and three mappings with a cycle.
ManyWorkflows == {WfDiamond, WfExt, WfCycle, WfSelf, WfLoop}

\* The states the store holds when schedule_many is called. FAILED goes
\* through the branch of UNKNOWN in update_state and through the branch of
\* SHOULDRUN in schedule, RUNNING through the branches of a COMPLETED target
\* that is up to date; both are drawn in the passes above.
ManyStates == {UNKNOWN, SUBMITTED, COMPLETED}

\* The lists of targets handed to schedule_many, a target repeated or not.
ManyLists == UNION {[1..k -> DOMAIN targets] : k \in 0..MaxList}

\* The list of the schedule_many call; the call is the second a client
\* makes, after Graph.from_targets.
ManyList == calls[2].list
\* schedule_many has been called.
ManyStarted == Len(calls) >= 2 /\ calls[2].op = "schedule_many"
\* schedule_many has returned its list, or an error has left it.
ManyEnded ==
    /\ ManyStarted
    /\ stack = <<>>
    /\ calls[Len(calls)].res \in Errors \cup {"returned"}
\* schedule_many is in its loop, or in a schedule call of the loop.
ManyRunning == ManyStarted /\ calls[Len(calls)].res \notin Errors \cup {"returned"}

\* A client calls schedule_many(list) on the scheduler of a graph that
\* Graph.from_targets has built.
ScheduleManyCall(list) ==
    /\ stack = <<>>
    /\ Len(calls) = 1
    /\ calls[1].res = "graph"
    /\ calls' = Append(calls, [op |-> "schedule_many", t |-> "", list |-> list,
                               res |-> "running"])
    /\ UNCHANGED <<scheduler, options0, option_defaults, targets, set_order, fs, file_cache, sr_cache, meta, meta0,
                   dry_run, pretend_known, stack, submits>>

\* Lines 374-375: the loop of schedule_many calls schedule for the next
\* target of the list.
ManyNext ==
    /\ ManyRunning
    /\ stack = <<>>
    /\ Len(calls) - 2 < Len(ManyList)
    /\ Gate(ManyList[Len(calls) - 1], <<>>)

\* Lines 379-380: the list is exhausted, schedule_many returns schedules.
ManyReturn ==
    /\ ManyRunning
    /\ stack = <<>>
    /\ Len(calls) - 2 = Len(ManyList)
    /\ calls' = Append(calls, [op |-> "schedule_many", t |-> "", res |-> "returned",
                               schedules |-> [i \in DOMAIN ManyList |-> calls[i + 2].res]])
    /\ UNCHANGED <<scheduler, options0, option_defaults, targets, set_order, fs, file_cache, sr_cache, meta, meta0,
                   dry_run, pretend_known, stack, submits>>

\* A client builds the graph of a targets mapping, with a cycle or without,
\* and calls schedule_many once on a scheduler of the graph.
InitMany ==
    /\ option_defaults = NoOptions
    /\ targets \in ManyWorkflows
    /\ options0 = [t \in DOMAIN targets |-> targets[t].options]
    /\ set_order \in SetOrders(targets)
    /\ fs \in FileSystems(targets, MaxPassTime)
    /\ meta \in [DOMAIN targets -> ManyStates]
    /\ meta0 = meta
    /\ dry_run \in BOOLEAN
    /\ InitScheduler

NextMany ==
    \/ FromTargetsCall
    \/ \E list \in ManyLists : ScheduleManyCall(list)
    \/ ManyNext
    \/ Descend
    \/ Decide
    \/ Submit
    \/ ManyReturn

SpecMany == InitMany /\ [][NextMany]_vars

\* The interpreter runs the one thread of schedule_many on: a statement that
\* can be executed is executed. Whether and when a client builds the graph
\* and calls schedule_many is left open.
SpecManyFair ==
    /\ SpecMany
    /\ WF_vars(ManyNext)
    /\ WF_vars(Descend)
    /\ WF_vars(Decide)
    /\ WF_vars(Submit)
    /\ WF_vars(ManyReturn)

\* The number of schedule calls that schedule(t) makes at most, itself
\* included: one for each path of dependencies that starts at t.
RECURSIVE Invocations(_), InvocationsOf(_)
Invocations(t) == 1 + InvocationsOf(SortedByName(dependencies(t)))
InvocationsOf(ds) ==
    IF ds = <<>> THEN 0 ELSE Invocations(Head(ds)) + InvocationsOf(Tail(ds))
\* The same, over the list of schedule_many.
ManyInvocations == InvocationsOf(ManyList)

\* C31: on a graph that Graph construction accepted, a schedule_many call of
\* a finite list returns or raises after finitely many steps, and until then
\* backend.submit is called at most once for each schedule call it can make.
C31_Terminates ==
    /\ [](ManyStarted => Len(submits) <= ManyInvocations)
    /\ (ManyRunning ~> ManyEnded)

\* schedule_many of two targets has returned after schedule went two calls
\* deep and backend.submit was called three times or more.
C31_Witness ==
    /\ ManyEnded
    /\ calls[Len(calls)].res = "returned"
    /\ Len(ManyList) = 2
    /\ Len(submits) >= 3
    /\ \E k \in DOMAIN submits : submits[k].deps # {} /\ submits[k].n0 < k - 1
====
